---- MODULE Spec2Model ----
(***************************************************************************)
(* Model of index.js: the three HTTP handlers of the Drive/Gemini backend  *)
(* (GET /api/files, GET /api/files/:folderId, POST /api/consult).          *)
(*                                                                         *)
(* One request is in flight at a time (the handlers share no mutable       *)
(* state).  Every `await` of the source is a suspension point: an action   *)
(* runs a handler from one resumption up to the next await or up to the    *)
(* response.  Strings are sequences of string tokens, so concatenation is  *)
(* \o and a template literal is the sequence of its pieces.                *)
(***************************************************************************)
EXTENDS Integers, Sequences, FiniteSets, TLC

\* ---------------------------------------------------------------- bounds
\* Largest number of items in the modelled Drive folder.
MaxFiles == 2

\* ------------------------------------------------------------- MIME types
GDOC == "application/vnd.google-apps.document"
DOCX == "application/vnd.openxmlformats-officedocument.wordprocessingml.document"
PPTX == "application/vnd.openxmlformats-officedocument.presentationml.presentation"
PDF == "application/pdf"
MSWORD == "application/msword"
TEXT == "text/plain"
FOLDER == "application/vnd.google-apps.folder"

\* The allowlist of the consult query, in source order.
supportedMimeTypes == <<TEXT, GDOC, PDF, DOCX, PPTX, MSWORD>>

Range(s) == {s[i] : i \in 1..Len(s)}

\* ---------------------------------------------------------- Drive content
\* Alphabet used for file names; a name's rank is its position here.
Alphabet == <<"a", "b", "c", "d", "e", "f">>

NameRank(n) == CHOOSE k \in 1..Len(Alphabet) : Alphabet[k] = n

\* The name of the item with id i: ids and names are ordered differently,
\* so that sorting by name is observable.
NameOf(i) == Alphabet[((i * 3) % 5) + 1]

\* The stored bytes of a file: either a well-formed document whose text is
\* the chunks (slides, for a presentation), or bytes no parser accepts.
GoodData == [corrupt |-> FALSE, chunks |-> <<"p", "q">>]
BadData == [corrupt |-> TRUE, chunks |-> <<"z">>]

Items(i) ==
    {[id |-> i, name |-> NameOf(i), mimeType |-> m, data |-> d] :
        m \in Range(supportedMimeTypes), d \in {GoodData, BadData}}
    \cup {[id |-> i, name |-> NameOf(i), mimeType |-> FOLDER, data |-> GoodData]}

\* The possible contents of the one existing folder: item i has id i.
Folders ==
    UNION {{f \in [1..n -> UNION {Items(i) : i \in 1..n}] :
                \A i \in 1..n : f[i] \in Items(i)} : n \in 0..MaxFiles}

\* The folder id configured as root, and the ids a client may send.
RootFolderId == "F1"
FolderIds == {"F1", "F2"}

\* What the JSON response shows of a stored item: fields 'files(id, name, mimeType)'.
Descriptor(it) == [id |-> it.id, name |-> it.name, mimeType |-> it.mimeType]

\* ------------------------------------------------------- drive.files.list
\* 'folder, name': folders first, then ascending by name.
SortsBefore(a, b) ==
    \/ a.mimeType = FOLDER /\ b.mimeType # FOLDER
    \/ /\ (a.mimeType = FOLDER) = (b.mimeType = FOLDER)
       /\ NameRank(a.name) < NameRank(b.name)

Arrangements(S) ==
    {s \in [1..Cardinality(S) -> S] : \A i, j \in 1..Cardinality(S) : s[i] = s[j] => i = j}

IsSorted(s) == \A i, j \in 1..Len(s) : i < j => SortsBefore(s[i], s[j])

\* The bytes stored for the file with this id.
DataOf(content, id) == (CHOOSE it \in Range(content) : it.id = id).data

\* The children of folderId in the backend whose content is `content`.
Children(content, folderId) ==
    IF folderId = RootFolderId THEN Range(content) ELSE {}

\* The answers drive.files.list may give: the items of the folder that pass
\* the filter, in the requested order; without orderBy the API promises no
\* order, so every arrangement is a possible answer.
ListResults(content, folderId, filtered, ordered) ==
    LET all == Children(content, folderId)
        hits == IF filtered THEN {it \in all : it.mimeType \in Range(supportedMimeTypes)}
                ELSE all
        found == {Descriptor(it) : it \in hits}
    IN  IF ordered THEN {s \in Arrangements(found) : IsSorted(s)}
        ELSE Arrangements(found)

\* The list call of the two browsing handlers (orderBy: 'folder, name').
BrowseList(content, folderId) == ListResults(content, folderId, FALSE, TRUE)

\* The list call of the consult handler (MIME filter, no orderBy).
ConsultList(content, folderId) == ListResults(content, folderId, TRUE, FALSE)

\* ------------------------------------------------------------- extractors
RECURSIVE Join(_, _)
\* Array.prototype.join(sep) over an array of strings.
Join(parts, sep) ==
    IF Len(parts) = 0 THEN <<>>
    ELSE IF Len(parts) = 1 THEN <<parts[1]>>
    ELSE <<parts[1], sep>> \o Join(Tail(parts), sep)

Thrown == [ok |-> FALSE, text |-> <<>>]
Returned(t) == [ok |-> TRUE, text |-> t]

\* mammoth.extractRawText({buffer}).value
mammothExtract(data) == IF data.corrupt THEN Thrown ELSE Returned(data.chunks)

\* pdf(buffer).text
pdfParse(data) == IF data.corrupt THEN Thrown ELSE Returned(data.chunks)

\* pptx2json.parse(buffer), then slides.map(slide => slide.text.raw).join('\n')
pptxParse(data) == IF data.corrupt THEN Thrown ELSE Returned(Join(data.chunks, "\n"))

\* fileBuffer.toString('utf8'): decodes whatever bytes there are.
toStringUtf8(data) == Returned(data.chunks)

\* The parsers the switch awaits; the other cases run synchronously.
AsyncParsed == {DOCX, PDF, PPTX}

\* Variant: the presentation case falls into the PDF parser.
ExtractMisrouted(mimeType, data) ==
    CASE mimeType = DOCX -> mammothExtract(data)
      [] mimeType = PDF -> pdfParse(data)
      [] mimeType = PPTX -> pdfParse(data)
      [] mimeType = MSWORD -> Returned(<<>>)
      [] mimeType = TEXT -> toStringUtf8(data)
      [] OTHER -> Returned(<<>>)

\* The switch on file.mimeType applied to the downloaded bytes.
Extract(mimeType, data) ==
    CASE mimeType = DOCX -> mammothExtract(data)
      [] mimeType = PDF -> pdfParse(data)
      [] mimeType = PPTX -> pptxParse(data)
      [] mimeType = MSWORD -> Returned(<<>>)
      [] mimeType = TEXT -> toStringUtf8(data)
      [] OTHER -> Returned(<<>>)

\* ---------------------------------------------------------------- context
\* `--- Content from file: ${file.name} ---\n${fileContent}\n\n`
ContentBlock(name, fileContent) ==
    <<"--- Content from file: ", name, " ---\n">> \o fileContent \o <<"\n\n">>

\* `--- Could not read content from file: ${file.name} ---\n\n`
PlaceholderBlock(name) ==
    <<"--- Could not read content from file: ", name, " ---\n\n">>

\* The prompt template of step 3.
BuildPrompt(question, context) ==
    <<"Based on the following documents, please answer the user's question. If you cannot find the answer, say so.\n",
      "User Question: \"", question, "\"\n", "Documents:\n">> \o context

\* ------------------------------------------------------- optional strings
Undefined == [defined |-> FALSE, value |-> ""]
Str(v) == [defined |-> TRUE, value |-> v]

\* JavaScript truthiness of an optional string.
Truthy(v) == v.defined /\ v.value # ""

\* ------------------------------------------------------- request bodies
Bodies ==
    [folderId : {Undefined, Str("")} \cup {Str(f) : f \in FolderIds},
     question : {Undefined, Str(""), Str("what?")}]

\* Variant: the two tests joined with && instead of ||.
InputInvalidBoth(body) == ~Truthy(body.folderId) /\ ~Truthy(body.question)

\* if (!folderId || !question)
InputInvalid(body) == ~Truthy(body.folderId) \/ ~Truthy(body.question)

\* ------------------------------------------------ generateContent results
TextPart(t) == [text |-> Str(t)]
NoTextPart == [text |-> Undefined]
NoContent == [hasContent |-> FALSE, parts |-> <<>>]
Content(parts) == [hasContent |-> TRUE, parts |-> parts]
Response(cands) == [defined |-> TRUE, hasCandidates |-> TRUE, candidates |-> cands]

\* The shapes result.response can take.
ModelResponses ==
    { [defined |-> FALSE, hasCandidates |-> FALSE, candidates |-> <<>>],
      [defined |-> TRUE, hasCandidates |-> FALSE, candidates |-> <<>>],
      Response(<<>>),
      Response(<<NoContent>>),
      Response(<<NoContent, Content(<<TextPart("late")>>)>>),
      Response(<<Content(<<>>)>>),
      Response(<<Content(<<NoTextPart>>)>>),
      Response(<<Content(<<NoTextPart, TextPart("second")>>)>>),
      Response(<<Content(<<TextPart("")>>)>>),
      Response(<<Content(<<TextPart("answer")>>)>>),
      Response(<<Content(<<TextPart("answer"), TextPart("more")>>), NoContent>>) }

\* response && response.candidates && response.candidates.length > 0
\*          && response.candidates[0].content
CandidateOk(response) ==
    /\ response.defined
    /\ response.hasCandidates
    /\ Len(response.candidates) > 0
    /\ response.candidates[1].hasContent

\* Reading parts[0] of the first candidate throws a TypeError when there is
\* no first part.
AnswerThrows(response) == Len(response.candidates[1].parts) = 0

\* response.candidates[0].content.parts[0].text
AnswerOf(response) == response.candidates[1].parts[1].text

\* -------------------------------------------------------------- responses
NoFilesAnswer ==
    "I couldn't find any supported files (Docs, PDF, DOCX, PPTX, or text) in that folder to read."

\* res.status(code).json({error: message})
ErrorResponse(code, message) ==
    [status |-> code, key |-> "error", text |-> Str(message), hasFiles |-> FALSE, files |-> <<>>]

\* res.json({answer})
AnswerResponse(answer) ==
    [status |-> 200, key |-> "answer", text |-> answer, hasFiles |-> FALSE, files |-> <<>>]

\* res.json(response.data.files)
FilesResponse(hasFiles, listed) ==
    [status |-> 200, key |-> "files", text |-> Undefined, hasFiles |-> hasFiles, files |-> listed]

\* An entry of the record of calls made while serving a request.
Event(op, i) == [op |-> op, i |-> i]

\* ------------------------------------------------------------------ state
VARIABLES
    folder,     \* the content of the Drive folder (fixed backend state)
    pc,         \* where the handler of the request in flight is suspended
    endpoint,   \* which of the three handlers is running
    body,       \* req.body / req.params of the request in flight
    files,      \* filesResponse.data.files
    idx,        \* position of the for-of loop in files
    context,    \* the context string built so far
    prompt,     \* the prompt given to generateContent
    result,     \* outcome of generateContent
    responses,  \* the responses sent for the request in flight
    trace       \* the calls made for the request in flight, in order

vars == <<folder, pc, endpoint, body, files, idx, context, prompt, result, responses, trace>>

NoBody == [folderId |-> Undefined, question |-> Undefined]
NoResult == [state |-> "none", response |-> Response(<<>>)]

Init ==
    /\ folder \in Folders
    /\ pc = "idle"
    /\ endpoint = "none"
    /\ body = NoBody
    /\ files = <<>>
    /\ idx = 0
    /\ context = <<>>
    /\ prompt = <<>>
    /\ result = NoResult
    /\ responses = <<>>
    /\ trace = <<>>

\* A new request starts with fresh handler locals.
Fresh ==
    /\ pc \in {"idle", "done"}
    /\ files' = <<>>
    /\ idx' = 0
    /\ context' = <<>>
    /\ prompt' = <<>>
    /\ result' = NoResult
    /\ UNCHANGED folder

\* What data.files of a list answer can be: the listing, or no field at all
\* when nothing matched.
ListData(results) ==
    {[hasFiles |-> TRUE, files |-> l] : l \in results}
    \cup (IF <<>> \in results THEN {[hasFiles |-> FALSE, files |-> <<>>]} ELSE {})

\* Variant: only the missing field is tested, not the length.
ListingEmptyAbsentOnly(data) == ~data.hasFiles

\* if (!filesResponse.data.files || filesResponse.data.files.length === 0)
ListingEmpty(data) == ~data.hasFiles \/ Len(data.files) = 0

\* Google Docs are exported as text, every other type is downloaded.
FetchOp(mimeType) == IF mimeType = GDOC THEN "export" ELSE "get"

\* Variant: the catch forgets res.status(500).
FetchErrorNoStatus == ErrorResponse(200, "Failed to fetch files.")

\* The body of the 500 sent by the catch of the browsing handlers.
FetchError == ErrorResponse(500, "Failed to fetch files.")

\* Variant: the catch forgets res.status(500).
ConsultErrorNoStatus == ErrorResponse(200, "Failed to consult Gemini.")

\* The body of the 500 sent by the outer catch of the consult handler.
ConsultError == ErrorResponse(500, "Failed to consult Gemini.")

\* res.json / res.status().json: send a response and end the handler.
Respond(r, tr) ==
    /\ responses' = Append(responses, r)
    /\ trace' = Append(tr, Event("respond", 0))
    /\ pc' = "done"

\* The loop moves to file i of list: the fetch is issued and awaited.
StartFile(list, i, tr) ==
    /\ idx' = i
    /\ trace' = Append(tr, Event(FetchOp(list[i].mimeType), i))
    /\ pc' = "fetch"

\* Variant: the loop is left after its first iteration.
LoopStopsEarly(list, i, ctx, tr) ==
    IF i <= Len(list) /\ i <= 1
    THEN /\ StartFile(list, i, tr)
         /\ UNCHANGED prompt
    ELSE /\ prompt' = BuildPrompt(body.question.value, ctx)
         /\ trace' = Append(tr, Event("generateContent", 0))
         /\ pc' = "model"
         /\ UNCHANGED idx

\* The for-of loop at position i of list: file i is fetched, or past the last
\* file the prompt is built from the context and generateContent is awaited.
Loop(list, i, ctx, tr) ==
    IF i <= Len(list)
    THEN /\ StartFile(list, i, tr)
         /\ UNCHANGED prompt
    ELSE /\ prompt' = BuildPrompt(body.question.value, ctx)
         /\ trace' = Append(tr, Event("generateContent", 0))
         /\ pc' = "model"
         /\ UNCHANGED idx

\* The end of one loop iteration, with the context it leaves.
AfterFile(ctx, tr) ==
    /\ context' = ctx
    /\ Loop(files, idx + 1, ctx, tr)
    /\ UNCHANGED <<folder, endpoint, body, files, result, responses>>

\* context += content block, at the end of the try body.
FileRead(fileContent) ==
    AfterFile(context \o ContentBlock(files[idx].name, fileContent),
              Append(trace, Event("appended", idx)))

\* Variant: the catch logs the error but adds nothing to the context.
FileFailedSilently ==
    AfterFile(context, Append(trace, Event("caught", idx)))

\* The per-file catch: context += placeholder block, and the loop goes on.
FileFailed ==
    AfterFile(context \o PlaceholderBlock(files[idx].name),
              Append(trace, Event("caught", idx)))

\* ---------------------------------------------------------------- actions
\* GET /api/files up to the await of drive.files.list.
GetRootFiles ==
    /\ Fresh
    /\ endpoint' = "root"
    /\ body' = [folderId |-> Str(RootFolderId), question |-> Undefined]
    /\ responses' = <<>>
    /\ trace' = <<Event("list", 0)>>
    /\ pc' = "list"

\* GET /api/files/:folderId up to the await of drive.files.list.
GetFolderFiles ==
    /\ Fresh
    /\ \E f \in FolderIds :
        body' = [folderId |-> Str(f), question |-> Undefined]
    /\ endpoint' = "sub"
    /\ responses' = <<>>
    /\ trace' = <<Event("list", 0)>>
    /\ pc' = "list"

\* POST /api/consult up to the 400 or to the await of drive.files.list.
PostConsult ==
    /\ Fresh
    /\ endpoint' = "consult"
    /\ \E b \in Bodies :
        /\ body' = b
        /\ IF InputInvalid(b)
           THEN /\ responses' = <<ErrorResponse(400, "folderId and question are required.")>>
                /\ trace' = <<Event("respond", 0)>>
                /\ pc' = "done"
           ELSE /\ responses' = <<>>
                /\ trace' = <<Event("list", 0)>>
                /\ pc' = "list"

\* A browsing handler resumes with the listing and sends it.
BrowseListReturns ==
    /\ pc = "list"
    /\ endpoint \in {"root", "sub"}
    /\ \E d \in ListData(BrowseList(folder, body.folderId.value)) :
        Respond(FilesResponse(d.hasFiles, d.files), trace)
    /\ UNCHANGED <<folder, endpoint, body, files, idx, context, prompt, result>>

\* drive.files.list rejects in a browsing handler.
BrowseListThrows ==
    /\ pc = "list"
    /\ endpoint \in {"root", "sub"}
    /\ Respond(FetchError, Append(trace, Event("error", 0)))
    /\ UNCHANGED <<folder, endpoint, body, files, idx, context, prompt, result>>

\* The consult handler resumes with the listing: the fixed answer when it is
\* empty, otherwise the loop starts and the first file is fetched.
ConsultListReturns ==
    /\ pc = "list"
    /\ endpoint = "consult"
    /\ \E d \in ListData(ConsultList(folder, body.folderId.value)) :
        /\ files' = d.files
        /\ IF ListingEmpty(d)
           THEN /\ Respond(AnswerResponse(Str(NoFilesAnswer)), trace)
                /\ UNCHANGED <<idx, prompt>>
           ELSE /\ Loop(d.files, 1, context, trace)
                /\ UNCHANGED responses
    /\ UNCHANGED <<folder, endpoint, body, context, result>>

\* drive.files.list rejects in the consult handler: the outer catch.
ConsultListThrows ==
    /\ pc = "list"
    /\ endpoint = "consult"
    /\ Respond(ConsultError, Append(trace, Event("error", 0)))
    /\ UNCHANGED <<folder, endpoint, body, files, idx, context, prompt, result>>

\* drive.files.export / drive.files.get resolves for the current file.
FetchReturns ==
    /\ pc = "fetch"
    /\ LET file == files[idx]
           data == DataOf(folder, file.id)
       IN  IF file.mimeType = GDOC
           THEN FileRead(data.chunks)
           ELSE IF file.mimeType \in AsyncParsed
           THEN /\ pc' = "parse"
                /\ trace' = Append(trace, Event("parse", idx))
                /\ UNCHANGED <<folder, endpoint, body, files, idx, context,
                               prompt, result, responses>>
           ELSE LET r == Extract(file.mimeType, data)
                IN  IF r.ok THEN FileRead(r.text) ELSE FileFailed

\* drive.files.export / drive.files.get rejects for the current file.
FetchThrows ==
    /\ pc = "fetch"
    /\ FileFailed

\* The awaited parser resolves.
ParseReturns ==
    /\ pc = "parse"
    /\ LET r == Extract(files[idx].mimeType, DataOf(folder, files[idx].id))
       IN  /\ r.ok
           /\ FileRead(r.text)

\* The awaited parser rejects.
ParseThrows ==
    /\ pc = "parse"
    /\ ~Extract(files[idx].mimeType, DataOf(folder, files[idx].id)).ok
    /\ FileFailed

\* generateContent resolves: the answer is sent, or the outer catch runs.
ModelReturns ==
    /\ pc = "model"
    /\ \E r \in ModelResponses :
        /\ result' = [state |-> "returned", response |-> r]
        /\ IF CandidateOk(r) /\ ~AnswerThrows(r)
           THEN Respond(AnswerResponse(AnswerOf(r)), trace)
           ELSE Respond(ConsultError, Append(trace, Event("error", 0)))
    /\ UNCHANGED <<folder, endpoint, body, files, idx, context, prompt>>

\* generateContent rejects: the outer catch.
ModelThrows ==
    /\ pc = "model"
    /\ result' = [state |-> "threw", response |-> Response(<<>>)]
    /\ Respond(ConsultError, Append(trace, Event("error", 0)))
    /\ UNCHANGED <<folder, endpoint, body, files, idx, context, prompt>>

Next ==
    \/ GetRootFiles
    \/ GetFolderFiles
    \/ PostConsult
    \/ BrowseListReturns
    \/ BrowseListThrows
    \/ ConsultListReturns
    \/ ConsultListThrows
    \/ FetchReturns
    \/ FetchThrows
    \/ ParseReturns
    \/ ParseThrows
    \/ ModelReturns
    \/ ModelThrows

Spec == Init /\ [][Next]_vars

\* ----------------------------------------------------- vocabulary of the claims
Consulting == endpoint = "consult"

Falsy(v) == v = Undefined \/ v = Str("")

Pos(op) == {p \in DOMAIN trace : trace[p].op = op}

FetchPos(i) == {p \in DOMAIN trace : trace[p].op \in {"export", "get"} /\ trace[p].i = i}

ParsePos(i) == {p \in DOMAIN trace : trace[p].op = "parse" /\ trace[p].i = i}

SettledPos(i) == {p \in DOMAIN trace : trace[p].op \in {"appended", "caught"} /\ trace[p].i = i}

\* The files whose fetch or extraction failed in this request.
Caught == {trace[p].i : p \in Pos("caught")}

ListSucceeded == Len(trace) >= 2 /\ trace[1].op = "list" /\ trace[2].op # "error"

ListRejected == Len(trace) >= 2 /\ trace[1].op = "list" /\ trace[2].op = "error"

\* The loop over a non-empty listing has run to its end.
LoopFinished == Consulting /\ pc \in {"model", "done"} /\ Len(files) > 0

\* The text the extractor of the file's type gives for the stored bytes.
ExtractorOutput(f) ==
    LET d == DataOf(folder, f.id)
    IN  CASE f.mimeType = TEXT -> toStringUtf8(d).text
          [] f.mimeType = GDOC -> d.chunks
          [] f.mimeType = DOCX -> mammothExtract(d).text
          [] f.mimeType = PDF -> pdfParse(d).text
          [] f.mimeType = PPTX -> pptxParse(d).text
          [] f.mimeType = MSWORD -> <<>>

\* A labeled block: header naming the file, body, blank line.
LabeledBlock(f) ==
    <<"--- Content from file: ", f.name, " ---\n">> \o ExtractorOutput(f) \o <<"\n\n">>

\* The 'could not read content' block of a file.
UnreadableBlock(f) == <<"--- Could not read content from file: ", f.name, " ---\n\n">>

RECURSIVE ExpectedContext(_, _)
\* The blocks of the first n listed files, in listing order, with the
\* unreadable block for the files in failed.
ExpectedContext(n, failed) ==
    IF n = 0 THEN <<>>
    ELSE ExpectedContext(n - 1, failed)
         \o (IF n \in failed THEN UnreadableBlock(files[n]) ELSE LabeledBlock(files[n]))

\* Number of block headers in the context.
BlockCount ==
    Cardinality({p \in DOMAIN context :
        context[p] \in {"--- Content from file: ", "--- Could not read content from file: "}})

\* The first candidate has content whose first part carries text.
ValidCandidate(r) ==
    /\ r.defined /\ r.hasCandidates /\ Len(r.candidates) > 0
    /\ r.candidates[1].hasContent
    /\ Len(r.candidates[1].parts) > 0
    /\ r.candidates[1].parts[1].text.defined

\* No response, no candidates, or a first candidate without content.
NoUsableCandidate(r) ==
    \/ ~r.defined
    \/ ~r.hasCandidates
    \/ Len(r.candidates) = 0
    \/ ~r.candidates[1].hasContent

\* ------------------------------------------------------------------ claims
\* C1: in a consult request where exactly one file X fails to be fetched or
\* extracted and the model returns a valid candidate, the context has one
\* block per listed file (the unreadable block for X, labeled blocks for the
\* others), every file was fetched, and the one response is a 200 carrying
\* the text of the model's first part.
C1_OneFailureTolerated ==
    (Consulting /\ result.state = "returned" /\ ValidCandidate(result.response)
        /\ Cardinality(Pos("caught")) = 1)
    => /\ pc = "done"
       /\ context = ExpectedContext(Len(files), Caught)
       /\ BlockCount = Len(files)
       /\ \A i \in 1..Len(files) : Cardinality(FetchPos(i)) = 1
       /\ Len(responses) = 1
       /\ responses[1].status = 200
       /\ responses[1].key = "answer"
       /\ responses[1].text = result.response.candidates[1].parts[1].text

C1_Witness ==
    /\ Consulting /\ pc = "done"
    /\ result.state = "returned" /\ ValidCandidate(result.response)
    /\ Len(files) >= 2
    /\ Pos("caught") # {} /\ Caught = {1}
    /\ Len(responses) = 1 /\ responses[1].status = 200

\* C2: a consult request whose folderId or question is missing or falsy is
\* answered 400 with an error body, and no storage call and no model call is
\* made for it.
C2_InvalidInputRejected ==
    (Consulting /\ (Falsy(body.folderId) \/ Falsy(body.question)))
    => /\ pc = "done"
       /\ Len(responses) = 1
       /\ responses[1].status = 400
       /\ responses[1].key = "error"
       /\ responses[1].text.defined
       /\ \A p \in DOMAIN trace :
            trace[p].op \notin {"list", "export", "get", "parse", "generateContent"}

C2_Witness ==
    /\ Consulting /\ pc = "done"
    /\ body.folderId = Str("F1") /\ body.question = Str("")
    /\ Len(responses) = 1 /\ responses[1].status = 400

\* C3: a consult request with both fields present whose listing succeeds with
\* no file (empty or absent list) is answered 200 with the fixed "couldn't
\* find any supported files" answer; no file is fetched and the model is not
\* called.
C3_EmptyListingShortCircuits ==
    (Consulting /\ ListSucceeded /\ Len(files) = 0)
    => /\ pc = "done"
       /\ responses = <<AnswerResponse(Str(NoFilesAnswer))>>
       /\ Pos("generateContent") = {}
       /\ Pos("export") = {} /\ Pos("get") = {}

C3_Witness ==
    /\ Consulting /\ pc = "done" /\ ListSucceeded
    /\ Len(files) = 0 /\ Len(folder) > 0
    /\ body.folderId = Str("F1")
    /\ Len(responses) = 1 /\ responses[1].status = 200

\* C4: every listed file of type application/msword has a labeled block with
\* an empty body in the finished context and never the unreadable block,
\* whatever the storage calls for it did.
C4_LegacyNeverUnreadable ==
    LoopFinished
    => \E failed \in SUBSET (1..Len(files)) :
        /\ context = ExpectedContext(Len(files), failed)
        /\ \A i \in failed : files[i].mimeType # MSWORD

\* C5: when the model returns no response, no candidate, or a first candidate
\* without content, the consult request is answered with the one response
\* 500 'Failed to consult Gemini.', however many files were listed and read,
\* and the model was called once.
C5_NoCandidateFails ==
    (Consulting /\ result.state = "returned" /\ NoUsableCandidate(result.response))
    => /\ pc = "done"
       /\ responses = <<ErrorResponse(500, "Failed to consult Gemini.")>>
       /\ Cardinality(Pos("generateContent")) = 1

C5_Witness ==
    /\ Consulting /\ pc = "done"
    /\ result.state = "returned" /\ result.response = Response(<<>>)
    /\ Len(files) >= 2 /\ Caught = {}
    /\ Len(responses) = 1 /\ responses[1].status = 500

\* C6: in each of the three endpoints a rejected listing call ends the
\* request with a 500 whose error is 'Failed to fetch files.', with one
\* listing call, no fetch and no model call.
C6_ListingErrorIsFetchFailure ==
    (pc = "done" /\ ListRejected)
    => /\ responses = <<ErrorResponse(500, "Failed to fetch files.")>>
       /\ Cardinality(Pos("list")) = 1
       /\ Pos("export") = {} /\ Pos("get") = {} /\ Pos("generateContent") = {}

\* C6 as amended: a rejected listing call ends the request with a single 500
\* carrying a generic error, 'Failed to fetch files.' in the two browsing
\* endpoints and 'Failed to consult Gemini.' in the consult endpoint, with
\* one listing call, no fetch, no model call and no listing data returned.
C6_ListingErrorAborts ==
    (pc = "done" /\ ListRejected)
    => /\ Len(responses) = 1
       /\ responses[1].status = 500
       /\ responses[1].key = "error"
       /\ responses[1].text =
            Str(IF Consulting THEN "Failed to consult Gemini." ELSE "Failed to fetch files.")
       /\ responses[1].files = <<>> /\ ~responses[1].hasFiles
       /\ files = <<>>
       /\ Cardinality(Pos("list")) = 1
       /\ Pos("export") = {} /\ Pos("get") = {} /\ Pos("generateContent") = {}

C6_Witness ==
    /\ pc = "done" /\ ListRejected
    /\ Consulting
    /\ Len(folder) > 0
    /\ Len(responses) = 1 /\ responses[1].status = 500

\* C7: the list of files the consult handler iterates is in the server-side
\* sorted order (folders first, then by name) that the browsing endpoints
\* request.
C7_ConsultListingSorted ==
    (Consulting /\ ListSucceeded)
    => files \in ListResults(folder, body.folderId.value, TRUE, TRUE)

\* C8: when every fetch and extraction of a consult listing of N files
\* succeeds, the finished context is exactly the N labeled blocks of the
\* listed files in listing order, each with the output of the extractor of
\* the file's type as body.
C8_AllReadContext ==
    (LoopFinished /\ Pos("caught") = {})
    => /\ context = ExpectedContext(Len(files), {})
       /\ BlockCount = Len(files)

C8_Witness ==
    /\ LoopFinished /\ Pos("caught") = {}
    /\ Len(files) >= 2
    /\ \E i \in 1..Len(files) : files[i].mimeType = PPTX
    /\ \E i \in 1..Len(files) : files[i].mimeType = GDOC

C10_OneWellFormedResponse ==
    (Consulting /\ pc = "done")
    => /\ Len(responses) = 1
       /\ \/ /\ responses[1].status = 200
             /\ responses[1].key = "answer"
             /\ responses[1].text.defined
          \/ /\ responses[1].status \in {400, 500}
             /\ responses[1].key = "error"
             /\ responses[1].text.defined

====
